---- MODULE Spec2Model ----
(***************************************************************************)
(* Water-gallon depletion forecast service (src/server/app.py).            *)
(*                                                                         *)
(* Units.  Volumes are whole millilitres (19.0 l = 19000), instants are    *)
(* whole minutes on the server clock, rates are millilitres per hour       *)
(* (0.001 l/h = 1).  Quotients that the code keeps as floats are kept as   *)
(* exact fractions <<numerator, denominator>> in lowest terms.  Formatted  *)
(* instants (strftime "%Y-%m-%d %H:%M:%S") are whole seconds.              *)
(* Timestamps read back from galon_data are taken to be instants on the    *)
(* same timeline as the server clock.                                      *)
(***************************************************************************)
EXTENDS Integers, Sequences, FiniteSets, TLC

\* ------------------------------------------------------------------ bounds
MaxRequests == 2
MaxClock == 2
MaxReadings == 2
MaxHistory == 3

\* ------------------------------------------------------- program constants
CAPACITY == 19000
RECENT_WINDOW == 2880
MIN_ELAPSED == 6
MIN_RATE == 1
MinutesPerHour == 60
SecondsPerMinute == 60

\* ------------------------------------------------------------ input sets
Procs == {"p1", "p2"}
Galons == {"A", "B"}
Values == {0, 5000, 19000}
SeqGalons == {"A"}
SeqValues == {0, 1, 1000, 3000, 5000, 19000}
SeqAdvances == {3, 60, 1140120}
WindowValues == {-1000, 1000, 19000}
WindowAdvances == {3, 2880, 1140120}
FleetValues == {0, 5000}
FleetAdvances == {60}

None == [none |-> TRUE]

\* --------------------------------------------------------------- fractions
RECURSIVE Gcd(_, _)
Gcd(a, b) == IF b = 0 THEN a ELSE Gcd(b, a % b)

\* n/d in lowest terms, n >= 0, d > 0
Frac(n, d) == LET g == Gcd(n, d) IN <<n \div g, d \div g>>

FracLeq(x, y) == x[1] * y[2] <= y[1] * x[2]

FracIsZero(x) == x[1] = 0

\* the quotient cut down to a whole number of hours
DivByFracFloor(x, y) == <<(x * y[2]) \div y[1], 1>>

\* x / y for a whole number x and a fraction y > 0
DivByFrac(x, y) == Frac(x * y[2], y[1])

\* whole seconds in h hours, h a fraction: floor(3600 * h) without overflow
HoursToSeconds(h) ==
    LET whole == h[1] \div h[2]
        rest == h[1] % h[2]
        mins == (MinutesPerHour * rest) \div h[2]
        rest2 == (MinutesPerHour * rest) % h[2]
        secs == (SecondsPerMinute * rest2) \div h[2]
    IN (whole * MinutesPerHour + mins) * SecondsPerMinute + secs

\* strftime("%Y-%m-%d %H:%M:%S") of an instant given in whole minutes
Strftime(t) == t * SecondsPerMinute

\* strftime of (t + timedelta(hours = h)): the fraction of a second is dropped
StrftimePlusHours(t, h) == t * SecondsPerMinute + HoursToSeconds(h)

\* ------------------------------------------------------- sequence helpers
RECURSIVE SumValues(_)
SumValues(rs) == IF rs = <<>> THEN 0 ELSE Head(rs).value + SumValues(Tail(rs))

IsPositive(r) == r.value > 0

RECURSIVE InsertSorted(_, _)
InsertSorted(r, rs) ==
    IF rs = <<>> THEN <<r>>
    ELSE IF r.timestamp < Head(rs).timestamp THEN <<r>> \o rs
    ELSE <<Head(rs)>> \o InsertSorted(r, Tail(rs))

\* list.sort(key = timestamp): stable, ascending
RECURSIVE SortByTimestamp(_)
SortByTimestamp(rs) ==
    IF rs = <<>> THEN <<>>
    ELSE InsertSorted(rs[Len(rs)], SortByTimestamp(SubSeq(rs, 1, Len(rs) - 1)))

Max(a, b) == IF a >= b THEN a ELSE b

\* ------------------------------------------------------ Prediction Engine
\* the SELECT without its WHERE clause
FetchRecordsOfAll(data, galon) == SortByTimestamp(data)

\* SELECT * FROM galon_data WHERE galon = %s ORDER BY timestamp ASC
FetchRecords(data, galon) ==
    SortByTimestamp(SelectSeq(data, LAMBDA r : r.galon = galon))

\* the same, but the recent records are used as soon as there is one
RecentRecordsIfAny(records_positive, current_time) ==
    LET recent_cutoff == current_time - RECENT_WINDOW
        recent == SelectSeq(records_positive,
                            LAMBDA r : r.timestamp >= recent_cutoff)
    IN SortByTimestamp(IF Len(recent) < 1 THEN records_positive ELSE recent)

\* recent_records: the positive records of the last 48 hours, or all the
\* positive records when fewer than two are recent; then sorted
RecentRecords(records_positive, current_time) ==
    LET recent_cutoff == current_time - RECENT_WINDOW
        recent == SelectSeq(records_positive,
                            LAMBDA r : r.timestamp >= recent_cutoff)
    IN SortByTimestamp(IF Len(recent) < 2 THEN records_positive ELSE recent)

\* the same, but the floor is one minute
TimeDiffMinuteFloor(first_time, last_time) ==
    IF last_time - first_time <= 1 THEN 1 ELSE last_time - first_time

\* time_diff_hours, kept in minutes: at or below 0.1 h it becomes 0.1 h
TimeDiff(first_time, last_time) ==
    IF last_time - first_time <= MIN_ELAPSED THEN MIN_ELAPSED
    ELSE last_time - first_time

\* consumption_rate = recent_consumption / time_diff_hours, in ml per hour
RawRate(recent_consumption, time_diff) ==
    Frac(recent_consumption * MinutesPerHour, time_diff)

\* the same, but the floored rate is used for the division only and the
\* rate as computed is returned
DepletionNoFloor(raw_rate, remaining_volume, last_time, current_time) ==
    IF FracLeq(raw_rate, <<MIN_RATE, 1>>)
    THEN LET hours == DivByFrac(remaining_volume, <<MIN_RATE, 1>>)
         IN [consumption_rate |-> raw_rate,
             hours_to_empty |-> hours,
             predicted_empty_time |-> StrftimePlusHours(current_time, hours)]
    ELSE IF remaining_volume <= 0
    THEN [consumption_rate |-> raw_rate,
          hours_to_empty |-> <<0, 1>>,
          predicted_empty_time |-> Strftime(last_time)]
    ELSE LET hours == DivByFrac(remaining_volume, raw_rate)
         IN [consumption_rate |-> raw_rate,
             hours_to_empty |-> hours,
             predicted_empty_time |-> StrftimePlusHours(current_time, hours)]

\* the same, but the hours are counted from last_time
DepletionFromLast(raw_rate, remaining_volume, last_time, current_time) ==
    IF FracLeq(raw_rate, <<MIN_RATE, 1>>)
    THEN LET rate == <<MIN_RATE, 1>>
             hours == DivByFrac(remaining_volume, rate)
         IN [consumption_rate |-> rate,
             hours_to_empty |-> hours,
             predicted_empty_time |-> StrftimePlusHours(last_time, hours)]
    ELSE IF remaining_volume <= 0
    THEN [consumption_rate |-> raw_rate,
          hours_to_empty |-> <<0, 1>>,
          predicted_empty_time |-> Strftime(last_time)]
    ELSE LET hours == DivByFrac(remaining_volume, raw_rate)
         IN [consumption_rate |-> raw_rate,
             hours_to_empty |-> hours,
             predicted_empty_time |-> StrftimePlusHours(last_time, hours)]

\* the if / elif / else that ends compute_prediction
Depletion(raw_rate, remaining_volume, last_time, current_time) ==
    IF FracLeq(raw_rate, <<MIN_RATE, 1>>)
    THEN LET rate == <<MIN_RATE, 1>>
             hours == DivByFrac(remaining_volume, rate)
         IN [consumption_rate |-> rate,
             hours_to_empty |-> hours,
             predicted_empty_time |-> StrftimePlusHours(current_time, hours)]
    ELSE IF remaining_volume <= 0
    THEN [consumption_rate |-> raw_rate,
          hours_to_empty |-> <<0, 1>>,
          predicted_empty_time |-> Strftime(last_time)]
    ELSE LET hours == DivByFrac(remaining_volume, raw_rate)
         IN [consumption_rate |-> raw_rate,
             hours_to_empty |-> hours,
             predicted_empty_time |-> StrftimePlusHours(current_time, hours)]

\* the same, but total_consumption is summed over the rate window only
SuccessPredictionWindowTotal(galon, records_positive, current_time) ==
    LET recent_records == RecentRecords(records_positive, current_time)
        first_time == recent_records[1].timestamp
        last_time == recent_records[Len(recent_records)].timestamp
        time_diff == TimeDiff(first_time, last_time)
        recent_consumption == SumValues(recent_records)
        total_consumption == recent_consumption
        remaining_volume == Max(0, CAPACITY - total_consumption)
        d == Depletion(RawRate(recent_consumption, time_diff),
                       remaining_volume, last_time, current_time)
    IN [galon |-> galon,
        capacity |-> CAPACITY,
        cumulative_consumption |-> total_consumption,
        consumption_rate_per_hour |-> d.consumption_rate,
        remaining_volume |-> remaining_volume,
        hours_to_empty |-> d.hours_to_empty,
        predicted_empty_time |-> d.predicted_empty_time,
        last_time |-> Strftime(last_time),
        current_time |-> Strftime(current_time)]

\* compute_prediction from the window to the returned dict (lines 91-149)
SuccessPrediction(galon, records_positive, current_time) ==
    LET recent_records == RecentRecords(records_positive, current_time)
        first_time == recent_records[1].timestamp
        last_time == recent_records[Len(recent_records)].timestamp
        time_diff == TimeDiff(first_time, last_time)
        recent_consumption == SumValues(recent_records)
        total_consumption == SumValues(records_positive)
        remaining_volume == Max(0, CAPACITY - total_consumption)
        d == Depletion(RawRate(recent_consumption, time_diff),
                       remaining_volume, last_time, current_time)
    IN [galon |-> galon,
        capacity |-> CAPACITY,
        cumulative_consumption |-> total_consumption,
        consumption_rate_per_hour |-> d.consumption_rate,
        remaining_volume |-> remaining_volume,
        hours_to_empty |-> d.hours_to_empty,
        predicted_empty_time |-> d.predicted_empty_time,
        last_time |-> Strftime(last_time),
        current_time |-> Strftime(current_time)]

\* a "no data" dict in place of None
ComputePredictionSentinel(galon, records, current_time) ==
    LET records_positive == SelectSeq(records, IsPositive)
    IN IF records_positive = <<>>
       THEN [galon |-> galon,
             capacity |-> CAPACITY,
             cumulative_consumption |-> 0,
             consumption_rate_per_hour |-> <<0, 1>>,
             remaining_volume |-> CAPACITY,
             hours_to_empty |-> <<1, 0>>,
             predicted_empty_time |-> 0,
             last_time |-> 0,
             current_time |-> Strftime(current_time)]
       ELSE SuccessPrediction(galon, records_positive, current_time)

\* compute_prediction once the records have been fetched (lines 83-149)
ComputePrediction(galon, records, current_time) ==
    LET records_positive == SelectSeq(records, IsPositive)
    IN IF records = <<>> THEN None
       ELSE IF records_positive = <<>> THEN None
       ELSE SuccessPrediction(galon, records_positive, current_time)

\* --------------------------------------------------------- Forecast Store
\* the column values update_prediction binds from a prediction
RowOf(galon, prediction) ==
    [galon |-> galon,
     predicted_empty_time |-> prediction.predicted_empty_time,
     consumption_rate |-> prediction.consumption_rate_per_hour,
     cumulative_consumption |-> prediction.cumulative_consumption,
     remaining_volume |-> prediction.remaining_volume,
     hours_to_empty |-> prediction.hours_to_empty,
     updated_at |-> prediction.last_time]

\* SELECT COUNT(*) FROM galon_prediction WHERE galon = %s
CountRows(table, galon) == Len(SelectSeq(table, LAMBDA r : r.galon = galon))

\* a table without the unique key
NoUniqueKey(table, galon) == FALSE

\* UNIQUE KEY unique_galon (galon): an INSERT of a galon already there fails
DuplicateKey(table, galon) == CountRows(table, galon) > 0

\* an UPDATE that adds the new cumulative_consumption to the stored one
UpdateRowsAdding(table, galon, prediction) ==
    [i \in 1..Len(table) |->
        IF table[i].galon = galon
        THEN [RowOf(galon, prediction) EXCEPT
                !.cumulative_consumption =
                    table[i].cumulative_consumption + @]
        ELSE table[i]]

\* UPDATE galon_prediction SET ... WHERE galon = %s
UpdateRows(table, galon, prediction) ==
    [i \in 1..Len(table) |->
        IF table[i].galon = galon THEN RowOf(galon, prediction) ELSE table[i]]

\* an INSERT that never reaches the table
InsertRowDropped(table, galon, prediction) == table

\* INSERT INTO galon_prediction (...) VALUES (...)
InsertRow(table, galon, prediction) == Append(table, RowOf(galon, prediction))

\* the statement update_prediction executes and commits; a duplicate-key
\* Error is caught and nothing is committed
WritePrediction(table, galon, prediction, record_exists) ==
    IF record_exists THEN UpdateRows(table, galon, prediction)
    ELSE IF DuplicateKey(table, galon) THEN table
    ELSE InsertRow(table, galon, prediction)

\* ---------------------------------------------------------- Reading Store
\* an insert that replaces the galon's earlier rows
InsertDataReplacing(data, galon, value, local_time) ==
    Append(SelectSeq(data, LAMBDA r : r.galon # galon),
           [galon |-> galon, value |-> value, timestamp |-> local_time])

\* INSERT INTO galon_data (galon, value, timestamp) VALUES (%s, %s, %s)
InsertData(data, galon, value, local_time) ==
    Append(data, [galon |-> galon, value |-> value, timestamp |-> local_time])

\* SELECT * FROM galon_prediction ORDER BY updated_at DESC: the orders of the
\* rows the statement can return (rows of equal updated_at in any order)
Listings(table) ==
    LET n == Len(table)
        perms == {f \in [1..n -> 1..n] : \A i, j \in 1..n : i # j => f[i] # f[j]}
        lists == {[i \in 1..n |-> table[f[i]]] : f \in perms}
    IN {l \in lists :
          \A i, j \in 1..n : i < j => l[i].updated_at >= l[j].updated_at}

\* ------------------------------------------------------------- responses
NoResponse == [code |-> 0, status |-> "none", message |-> "", body |-> <<>>]

Stored ==
    [code |-> 200, status |-> "success",
     message |-> "Data received and stored successfully!", body |-> <<>>]

InvalidData ==
    [code |-> 400, status |-> "error", message |-> "Invalid data format",
     body |-> <<>>]

NotEnoughData ==
    [code |-> 400, status |-> "error",
     message |-> "Not enough data for prediction or error occurred",
     body |-> <<>>]

ServerError ==
    [code |-> 500, status |-> "error", message |-> "exception", body |-> <<>>]

PredictionFound(prediction) ==
    [code |-> 200, status |-> "success", message |-> "", body |-> <<prediction>>]

PredictionList(rows) ==
    [code |-> 200, status |-> "success", message |-> "", body |-> rows]

\* predict: the response for what compute_prediction returned
PredictResponse(prediction) ==
    IF prediction = None THEN NotEnoughData ELSE PredictionFound(prediction)

\* update_prediction: "if prediction is None: return"
SkipUpdate(prediction) == prediction = None

\* ------------------------------------------------------------------ state
\* how a storage access ends: it works; connect() raises, and the finally
\* clause then raises on the unbound connection; connect() returns a
\* connection that is not connected; execute() or commit() raises Error
DbOutcomes == {"ok", "connect_error", "not_connected", "exec_error"}

VARIABLES
    now,              \* the server clock, in minutes
    ticks,            \* how often the clock has advanced
    galon_data,       \* Reading Store: the rows of table galon_data
    galon_prediction, \* Forecast Store: the rows of table galon_prediction
    pc,               \* where each request handler stands
    request,          \* the request each handler serves
    records,          \* compute_prediction: the records it fetched
    prediction,       \* what compute_prediction returned
    record_exists,    \* update_prediction: result of the existence check
    response,         \* the response of each handler
    started,          \* requests received so far
    appended,         \* the handler's insert_data committed its row
    failed,           \* a storage access of the handler's request failed
    failed_galons     \* galons whose recomputation or upsert met a failure

vars == <<now, ticks, galon_data, galon_prediction, pc, request, records,
          prediction, record_exists, response, started, appended, failed,
          failed_galons>>

NoRequest == [kind |-> "none", galon |-> "", value |-> 0]

Init ==
    /\ now = 0
    /\ ticks = 0
    /\ galon_data = <<>>
    /\ galon_prediction = <<>>
    /\ pc = [p \in Procs |-> "idle"]
    /\ request = [p \in Procs |-> NoRequest]
    /\ records = [p \in Procs |-> <<>>]
    /\ prediction = [p \in Procs |-> None]
    /\ record_exists = [p \in Procs |-> FALSE]
    /\ response = [p \in Procs |-> NoResponse]
    /\ started = 0
    /\ appended = [p \in Procs |-> FALSE]
    /\ failed = [p \in Procs |-> FALSE]
    /\ failed_galons = {}

\* ---------------------------------------- request handlers, step by step
\* a request goes to the first handler that is free
Free(p) == pc[p] = "idle" /\ (p = "p2" => pc["p1"] # "idle")

\* POST /data with a well-formed body: receive_data up to the insert_data call
ReceiveData(p, galon, value) ==
    /\ Free(p)
    /\ started < MaxRequests
    /\ started' = started + 1
    /\ pc' = [pc EXCEPT ![p] = "insert_data"]
    /\ request' = [request EXCEPT
                     ![p] = [kind |-> "data", galon |-> galon, value |-> value]]
    /\ UNCHANGED <<now, ticks, galon_data, galon_prediction, records,
                   prediction, record_exists, response, appended, failed,
                   failed_galons>>

\* POST /data without galon or value, or of the wrong types: 400
ReceiveInvalidData(p) ==
    /\ Free(p)
    /\ started < MaxRequests
    /\ started' = started + 1
    /\ pc' = [pc EXCEPT ![p] = "done"]
    /\ request' = [request EXCEPT ![p] = [NoRequest EXCEPT !.kind = "data"]]
    /\ response' = [response EXCEPT ![p] = InvalidData]
    /\ UNCHANGED <<now, ticks, galon_data, galon_prediction, records,
                   prediction, record_exists, appended, failed, failed_galons>>

\* GET /predict/<galon>: predict up to the compute_prediction call
Predict(p, galon) ==
    /\ Free(p)
    /\ started < MaxRequests
    /\ started' = started + 1
    /\ pc' = [pc EXCEPT ![p] = "fetch"]
    /\ request' = [request EXCEPT
                     ![p] = [kind |-> "predict", galon |-> galon, value |-> 0]]
    /\ UNCHANGED <<now, ticks, galon_data, galon_prediction, records,
                   prediction, record_exists, response, appended, failed,
                   failed_galons>>

\* insert_data: an Error of execute or commit is printed and swallowed; an
\* Error of connect leaves `connection` unbound for the finally clause, and
\* the resulting exception reaches receive_data's handler (500)
InsertDataStep(p, o) ==
    /\ pc[p] = "insert_data"
    /\ galon_data' =
         IF o = "ok"
         THEN InsertData(galon_data, request[p].galon, request[p].value, now)
         ELSE galon_data
    /\ appended' = [appended EXCEPT ![p] = (o = "ok")]
    /\ failed' = [failed EXCEPT ![p] = (o # "ok")]
    /\ pc' = [pc EXCEPT ![p] = IF o = "connect_error" THEN "done" ELSE "fetch"]
    /\ response' = [response EXCEPT
                      ![p] = IF o = "connect_error" THEN ServerError ELSE @]
    /\ UNCHANGED <<now, ticks, galon_prediction, request, records, prediction,
                   record_exists, started, failed_galons>>

\* compute_prediction, lines 66-81: the SELECT of the galon's records; on an
\* Error, or without a connection, compute_prediction returns None
FetchStep(p, o) ==
    LET data == request[p].kind = "data"
        next_pc == IF o = "ok" THEN "calc"
                   ELSE IF o = "connect_error" THEN "done"
                   ELSE IF data THEN "update" ELSE "done"
    IN /\ pc[p] = "fetch"
       /\ records' = [records EXCEPT
                        ![p] = IF o = "ok"
                               THEN FetchRecords(galon_data, request[p].galon)
                               ELSE <<>>]
       /\ pc' = [pc EXCEPT ![p] = next_pc]
       /\ response' = [response EXCEPT
                         ![p] = IF o = "connect_error" THEN ServerError
                                ELSE IF o # "ok" /\ ~data THEN NotEnoughData
                                ELSE @]
       /\ failed' = [failed EXCEPT ![p] = @ \/ o # "ok"]
       /\ failed_galons' = IF o # "ok" /\ data
                           THEN failed_galons \cup {request[p].galon}
                           ELSE failed_galons
       /\ UNCHANGED <<now, ticks, galon_data, galon_prediction, request,
                      prediction, record_exists, started, appended>>

\* compute_prediction, lines 83-149, and the return to the caller
CalcStep(p) ==
    LET result == ComputePrediction(request[p].galon, records[p], now)
        data == request[p].kind = "data"
    IN /\ pc[p] = "calc"
       /\ prediction' = [prediction EXCEPT ![p] = result]
       /\ pc' = [pc EXCEPT ![p] = IF data THEN "update" ELSE "done"]
       /\ response' = [response EXCEPT
                         ![p] = IF data THEN @ ELSE PredictResponse(result)]
       /\ UNCHANGED <<now, ticks, galon_data, galon_prediction, request,
                      records, record_exists, started, appended, failed,
                      failed_galons>>

\* update_prediction, lines 157-169: the None test and the existence check
CheckStep(p, o) ==
    LET skip == SkipUpdate(prediction[p])
        next_pc == IF ~skip /\ o = "ok" THEN "write" ELSE "done"
    IN /\ pc[p] = "update"
       /\ skip => o = "ok"
       /\ record_exists' =
            [record_exists EXCEPT
               ![p] = ~skip /\ o = "ok"
                      /\ CountRows(galon_prediction, request[p].galon) > 0]
       /\ pc' = [pc EXCEPT ![p] = next_pc]
       /\ response' = [response EXCEPT
                         ![p] = IF o = "connect_error" THEN ServerError
                                ELSE IF next_pc = "done" THEN Stored
                                ELSE @]
       /\ failed' = [failed EXCEPT ![p] = @ \/ o # "ok"]
       /\ failed_galons' = IF o # "ok"
                           THEN failed_galons \cup {request[p].galon}
                           ELSE failed_galons
       /\ UNCHANGED <<now, ticks, galon_data, galon_prediction, request,
                      records, prediction, started, appended>>

\* update_prediction, lines 171-212: UPDATE or INSERT, commit; an Error is
\* printed and swallowed, and receive_data answers 200
WriteStep(p, o) ==
    /\ pc[p] = "write"
    /\ o \in {"ok", "exec_error"}
    /\ galon_prediction' =
         IF o = "ok"
         THEN WritePrediction(galon_prediction, request[p].galon,
                              prediction[p], record_exists[p])
         ELSE galon_prediction
    /\ pc' = [pc EXCEPT ![p] = "done"]
    /\ response' = [response EXCEPT ![p] = Stored]
    /\ failed' = [failed EXCEPT ![p] = @ \/ o # "ok"]
    /\ failed_galons' = IF o # "ok"
                        THEN failed_galons \cup {request[p].galon}
                        ELSE failed_galons
    /\ UNCHANGED <<now, ticks, galon_data, request, records, prediction,
                   record_exists, started, appended>>

\* the response has gone to the client: the handler's locals are dropped
\* and the handler is free again
Return(p) ==
    /\ pc[p] = "done"
    /\ pc' = [pc EXCEPT ![p] = "idle"]
    /\ request' = [request EXCEPT ![p] = NoRequest]
    /\ records' = [records EXCEPT ![p] = <<>>]
    /\ prediction' = [prediction EXCEPT ![p] = None]
    /\ record_exists' = [record_exists EXCEPT ![p] = FALSE]
    /\ response' = [response EXCEPT ![p] = NoResponse]
    /\ appended' = [appended EXCEPT ![p] = FALSE]
    /\ failed' = [failed EXCEPT ![p] = FALSE]
    /\ UNCHANGED <<now, ticks, galon_data, galon_prediction, started,
                   failed_galons>>

Next ==
    \/ \E p \in Procs, g \in Galons, v \in Values : ReceiveData(p, g, v)
    \/ \E p \in Procs : ReceiveInvalidData(p)
    \/ \E p \in Procs, g \in Galons : Predict(p, g)
    \/ \E p \in Procs, o \in DbOutcomes : InsertDataStep(p, o)
    \/ \E p \in Procs, o \in DbOutcomes : FetchStep(p, o)
    \/ \E p \in Procs : CalcStep(p)
    \/ \E p \in Procs, o \in DbOutcomes : CheckStep(p, o)
    \/ \E p \in Procs, o \in DbOutcomes : WriteStep(p, o)
    \/ \E p \in Procs : Return(p)

\* concurrent request handlers over a storage whose accesses may fail
Spec == Init /\ [][Next]_vars

RaceNext ==
    \/ \E p \in Procs, g \in Galons, v \in Values : ReceiveData(p, g, v)
    \/ \E p \in Procs, g \in Galons : Predict(p, g)
    \/ \E p \in Procs : InsertDataStep(p, "ok")
    \/ \E p \in Procs : FetchStep(p, "ok")
    \/ \E p \in Procs : CalcStep(p)
    \/ \E p \in Procs : CheckStep(p, "ok")
    \/ \E p \in Procs : WriteStep(p, "ok")
    \/ \E p \in Procs : Return(p)

\* concurrent request handlers over a storage that never fails
RaceSpec == Init /\ [][RaceNext]_vars

\* --------------------------------- the operations, one request at a time
Handler == "p1"

Quiet == \A p \in Procs : pc[p] = "idle"

\* datetime.now advances between requests: the last response has gone to
\* the client and the handler's locals are dropped
SeqTick(d) ==
    /\ ticks < MaxClock
    /\ now' = now + d
    /\ ticks' = ticks + 1
    /\ request' = [request EXCEPT ![Handler] = NoRequest]
    /\ records' = [records EXCEPT ![Handler] = <<>>]
    /\ prediction' = [prediction EXCEPT ![Handler] = None]
    /\ record_exists' = [record_exists EXCEPT ![Handler] = FALSE]
    /\ response' = [response EXCEPT ![Handler] = NoResponse]
    /\ UNCHANGED <<galon_data, galon_prediction, pc, started, appended,
                   failed, failed_galons>>

\* recordAndPredict: receive_data from the request to the response, with
\* insert_data, compute_prediction and update_prediction all succeeding
RecordAndPredict(galon, value) ==
    LET data == InsertData(galon_data, galon, value, now)
        fetched == FetchRecords(data, galon)
        result == ComputePrediction(galon, fetched, now)
        exists == CountRows(galon_prediction, galon) > 0
    IN /\ Quiet
       /\ galon_data' = data
       /\ galon_prediction' =
            IF SkipUpdate(result) THEN galon_prediction
            ELSE WritePrediction(galon_prediction, galon, result, exists)
       /\ request' = [request EXCEPT
                        ![Handler] = [kind |-> "data", galon |-> galon,
                                      value |-> value]]
       /\ records' = [records EXCEPT ![Handler] = fetched]
       /\ prediction' = [prediction EXCEPT ![Handler] = result]
       /\ response' = [response EXCEPT ![Handler] = Stored]
       /\ UNCHANGED <<now, ticks, pc, record_exists, started, appended,
                      failed, failed_galons>>

\* a predict that hands its prediction on to the Forecast Store
CurrentPredictionStoring(galon) ==
    LET fetched == FetchRecords(galon_data, galon)
        result == ComputePrediction(galon, fetched, now)
        exists == CountRows(galon_prediction, galon) > 0
    IN /\ Quiet
       /\ request' = [request EXCEPT
                        ![Handler] = [kind |-> "predict", galon |-> galon,
                                      value |-> 0]]
       /\ records' = [records EXCEPT ![Handler] = fetched]
       /\ prediction' = [prediction EXCEPT ![Handler] = result]
       /\ response' = [response EXCEPT ![Handler] = PredictResponse(result)]
       /\ galon_prediction' =
            IF SkipUpdate(result) THEN galon_prediction
            ELSE WritePrediction(galon_prediction, galon, result, exists)
       /\ UNCHANGED <<now, ticks, galon_data, pc, record_exists, started,
                      appended, failed, failed_galons>>

\* currentPrediction: predict from the request to the response
CurrentPrediction(galon) ==
    LET fetched == FetchRecords(galon_data, galon)
        result == ComputePrediction(galon, fetched, now)
    IN /\ Quiet
       /\ request' = [request EXCEPT
                        ![Handler] = [kind |-> "predict", galon |-> galon,
                                      value |-> 0]]
       /\ records' = [records EXCEPT ![Handler] = fetched]
       /\ prediction' = [prediction EXCEPT ![Handler] = result]
       /\ response' = [response EXCEPT ![Handler] = PredictResponse(result)]
       /\ UNCHANGED <<now, ticks, galon_data, galon_prediction, pc,
                      record_exists, started, appended, failed, failed_galons>>

\* listAll: get_predictions from the request to the response
ListAll ==
    /\ Quiet
    /\ request' = [request EXCEPT ![Handler] = [NoRequest EXCEPT !.kind = "list"]]
    /\ records' = [records EXCEPT ![Handler] = <<>>]
    /\ prediction' = [prediction EXCEPT ![Handler] = None]
    /\ \E rows \in Listings(galon_prediction) :
         response' = [response EXCEPT ![Handler] = PredictionList(rows)]
    /\ UNCHANGED <<now, ticks, galon_data, galon_prediction, pc,
                   record_exists, started, appended, failed, failed_galons>>

SeqNext ==
    \/ \E d \in SeqAdvances : SeqTick(d)
    \/ \E g \in SeqGalons, v \in SeqValues :
          Len(galon_data) < MaxReadings /\ RecordAndPredict(g, v)
    \/ \E g \in SeqGalons : CurrentPrediction(g)
    \/ ListAll

\* requests served one after the other while the clock advances
SeqSpec == Init /\ [][SeqNext]_vars

WindowNext ==
    \/ \E d \in WindowAdvances : SeqTick(d)
    \/ \E g \in SeqGalons, v \in WindowValues :
          Len(galon_data) < MaxHistory /\ RecordAndPredict(g, v)
    \/ \E g \in SeqGalons : CurrentPrediction(g)

\* one galon whose history grows past the 48 hours of the rate window
WindowSpec == Init /\ [][WindowNext]_vars

\* update_prediction, lines 161-212, run once more with the prediction the
\* last ingest computed: the existence check, then UPDATE or INSERT, commit
UpsertAgain ==
    LET galon == request[Handler].galon
        result == prediction[Handler]
        exists == CountRows(galon_prediction, galon) > 0
    IN /\ Quiet
       /\ request[Handler].kind = "data"
       /\ ~SkipUpdate(result)
       /\ record_exists' = [record_exists EXCEPT ![Handler] = exists]
       /\ galon_prediction' =
            WritePrediction(galon_prediction, galon, result, exists)
       /\ UNCHANGED <<now, ticks, galon_data, pc, request, records,
                      prediction, response, started, appended, failed,
                      failed_galons>>

FleetNext ==
    \/ \E d \in FleetAdvances : SeqTick(d)
    \/ \E g \in Galons, v \in FleetValues :
          Len(galon_data) < MaxHistory /\ RecordAndPredict(g, v)
    \/ \E g \in Galons : CurrentPrediction(g)
    \/ ListAll
    \/ UpsertAgain

\* two galons served one request after the other while the clock advances
FleetSpec == Init /\ [][FleetNext]_vars

\* ================================================================ claims
Settled == \A p \in Procs : pc[p] \in {"idle", "done"}

PositiveTotal(galon) ==
    SumValues(SelectSeq(FetchRecords(galon_data, galon), IsPositive))

HasPositive(galon) ==
    \E i \in 1..Len(galon_data) :
        galon_data[i].galon = galon /\ galon_data[i].value > 0

\* the handler's compute_prediction had no positive record to work on
NonSuccess(p) == \A i \in 1..Len(records[p]) : records[p][i].value <= 0

Upserted(p) ==
    /\ pc[p] = "done"
    /\ request[p].kind = "data"
    /\ prediction[p] # None
    /\ ~failed[p]

\* C1: under any interleaving of ingests, and with storage failures, the
\* Forecast Store never holds more than one row for a container_id; two
\* handlers that both saw "absent" never both leave an inserted row.
C1_AtMostOneRow == \A g \in Galons : CountRows(galon_prediction, g) <= 1

\* both handlers saw the galon absent and both ran their INSERT
C1_Witness ==
    \E g \in Galons : \A p \in Procs :
        Upserted(p) /\ request[p].galon = g /\ ~record_exists[p]

\* C2: once all concurrent ingests have completed, every row's
\* cumulative_consumption is the sum of all positive readings stored for
\* its container (an older recomputation never overwrites a newer one).
C2_LatestWins ==
    Settled =>
        \A i \in 1..Len(galon_prediction) :
            galon_prediction[i].cumulative_consumption
                = PositiveTotal(galon_prediction[i].galon)

\* C3: a handler whose Prediction Engine result is not Success (no
\* readings, no positive readings, failed read) leaves the Forecast Store
\* unchanged in every step of its upsert.
C3_NonSuccessLeavesStore ==
    [][\A p \in Procs :
          (pc[p] \in {"update", "write"} /\ NonSuccess(p) /\ pc'[p] # pc[p])
              => galon_prediction' = galon_prediction]_vars

\* an ingest went through update_prediction with a non-Success result
\* while its galon has a row
C3_Witness ==
    \E p \in Procs :
        /\ pc[p] = "done"
        /\ request[p].kind = "data"
        /\ appended[p]
        /\ NonSuccess(p)
        /\ response[p] = Stored
        /\ CountRows(galon_prediction, request[p].galon) = 1

C5_ReadingsKept ==
    [][/\ Len(galon_data') >= Len(galon_data)
       /\ SubSeq(galon_data', 1, Len(galon_data)) = galon_data]_vars

\* an ingest stored its reading, then met a storage failure, and the
\* reading is still there beside an earlier one of the same galon
C5_Witness ==
    \E p \in Procs :
        /\ pc[p] = "done"
        /\ appended[p]
        /\ failed[p]
        /\ Len(galon_data) = 2
        /\ galon_data[1].galon = request[p].galon
        /\ galon_data[2].galon = request[p].galon
        /\ galon_data[2].value = request[p].value

\* C6: an ingest recomputes and upserts only after its own reading has
\* been committed to the Reading Store.
C6_AppendBeforeRecompute ==
    \A p \in Procs :
        (request[p].kind = "data" /\ pc[p] \in {"fetch", "calc", "update", "write"})
            => appended[p]

\* C7: a request that met a storage failure ends in a failure response,
\* never in success and never in the insufficient-data response.
C7_FailureReported ==
    \A p \in Procs :
        (pc[p] = "done" /\ failed[p])
            => /\ response[p].code = 500
               /\ response[p].status # "success"
               /\ response[p] # NotEnoughData

\* C8: when the positive readings sum to the capacity or more, the
\* prediction has hours_to_empty = 0 and predicted_empty_time = last_time,
\* the time of the last reading of the rate window.
C8_EmptyPinnedToLast ==
    LET positive == SelectSeq(records[Handler], IsPositive)
        result == prediction[Handler]
    IN (positive # <<>> /\ SumValues(positive) >= CAPACITY)
           => /\ result # None
              /\ FracIsZero(result.hours_to_empty)
              /\ result.predicted_empty_time = result.last_time

\* C9: in every Success prediction and every Forecast Store row,
\* hours_to_empty = 0 exactly when remaining_volume = 0.
C9_ZeroHoursIffEmpty ==
    /\ prediction[Handler] # None
           => (FracIsZero(prediction[Handler].hours_to_empty)
                   <=> prediction[Handler].remaining_volume = 0)
    /\ \A i \in 1..Len(galon_prediction) :
           FracIsZero(galon_prediction[i].hours_to_empty)
               <=> galon_prediction[i].remaining_volume = 0

\* an empty galon under the floored rate, and a row written for it
C9_Witness ==
    /\ prediction[Handler] # None
    /\ prediction[Handler].remaining_volume = 0
    /\ prediction[Handler].consumption_rate_per_hour = <<MIN_RATE, 1>>
    /\ FracIsZero(prediction[Handler].hours_to_empty)
    /\ Len(galon_prediction) = 1
    /\ galon_prediction[1].remaining_volume = 0

RateOk(rate, hours) ==
    /\ rate[2] > 0
    /\ rate[1] > 0
    /\ FracLeq(<<MIN_RATE, 1>>, rate)
    /\ hours[2] > 0
    /\ hours[1] >= 0

\* C10: in every Success prediction and every Forecast Store row the rate
\* is at least MIN_RATE, hence not zero, and hours_to_empty is finite.
C10_RateFloor ==
    /\ prediction[Handler] # None
           => RateOk(prediction[Handler].consumption_rate_per_hour,
                     prediction[Handler].hours_to_empty)
    /\ \A i \in 1..Len(galon_prediction) :
           RateOk(galon_prediction[i].consumption_rate,
                  galon_prediction[i].hours_to_empty)

\* two positive readings so far apart that their rate is below MIN_RATE:
\* the prediction and the row written carry MIN_RATE
C10_Witness ==
    LET positive == SelectSeq(records[Handler], IsPositive)
    IN /\ Len(positive) = 2
       /\ SumValues(positive) * MinutesPerHour
              < positive[2].timestamp - positive[1].timestamp
       /\ prediction[Handler] # None
       /\ prediction[Handler].consumption_rate_per_hour = <<MIN_RATE, 1>>
       /\ request[Handler].kind = "data"
       /\ Len(galon_prediction) = 1
       /\ galon_prediction[1].consumption_rate = <<MIN_RATE, 1>>

\* the positive readings stored for the galon, as positions in galon_data
Positives(galon) ==
    {i \in 1..Len(galon_data) :
        galon_data[i].galon = galon /\ galon_data[i].value > 0}

RECURSIVE SumAt(_)
SumAt(positions) ==
    IF positions = {} THEN 0
    ELSE LET i == CHOOSE j \in positions : TRUE
         IN galon_data[i].value + SumAt(positions \ {i})

\* the handler has just computed a prediction for the galon of its request
Computed == request[Handler].kind \in {"data", "predict"}

\* C11: for a history with at least one positive value the prediction's
\* cumulative_consumption is the sum of all the readings with value > 0,
\* inside and outside the 48-hour window, readings <= 0 left out, and
\* remaining_volume = max(0, capacity - cumulative_consumption).
C11_CumulativeAllPositive ==
    LET galon == request[Handler].galon
        result == prediction[Handler]
        total == SumAt(Positives(galon))
    IN (Computed /\ Positives(galon) # {})
           => /\ result # None
              /\ result.cumulative_consumption = total
              /\ result.remaining_volume
                     = (IF total >= CAPACITY THEN 0 ELSE CAPACITY - total)

\* three positive readings, the first of them older than 48 hours and the
\* other two inside the window: all three are in the sum
C11_Witness ==
    LET galon == request[Handler].galon
        result == prediction[Handler]
    IN /\ Computed
       /\ result # None
       /\ Cardinality(Positives(galon)) = 3
       /\ Cardinality({i \in Positives(galon) :
                          galon_data[i].timestamp >= now - RECENT_WINDOW}) = 2
       /\ result.cumulative_consumption = SumAt(Positives(galon))
       /\ result.remaining_volume > 0

\* a GET /predict handler has answered, and its compute_prediction had no
\* positive record to work on
Unusable(p) ==
    /\ pc[p] = "done"
    /\ request[p].kind = "predict"
    /\ NonSuccess(p)

\* C12: for unusable input the Prediction Engine returns a typed outcome:
\* an empty history gives a prediction of remaining_volume = capacity, and
\* what is returned and answered for an empty history, for a history of
\* values <= 0 and for a failed storage read differ from one another.
C12_TypedOutcomes ==
    /\ \A p \in Procs :
           (Unusable(p) /\ ~failed[p] /\ records[p] = <<>>)
               => /\ prediction[p] # None
                  /\ prediction[p].remaining_volume = CAPACITY
    /\ \A p, q \in Procs :
           (/\ Unusable(p)
            /\ Unusable(q)
            /\ \/ failed[p] # failed[q]
               \/ (~failed[p] /\ ~failed[q]
                      /\ (records[p] = <<>>) # (records[q] = <<>>)))
               => <<prediction[p], response[p]>> # <<prediction[q], response[q]>>

\* the row carries the values of the prediction
SameValues(row, result) ==
    /\ row.predicted_empty_time = result.predicted_empty_time
    /\ row.consumption_rate = result.consumption_rate_per_hour
    /\ row.cumulative_consumption = result.cumulative_consumption
    /\ row.remaining_volume = result.remaining_volume
    /\ row.hours_to_empty = result.hours_to_empty

C14_LastComputedFirst ==
    LET galon == request[Handler].galon
        result == prediction[Handler]
        others_earlier ==
            \A i \in 1..Len(galon_data) :
                galon_data[i].galon # galon => galon_data[i].timestamp < now
    IN (request[Handler].kind = "data" /\ result # None)
           => /\ \A i \in 1..Len(galon_prediction) :
                     galon_prediction[i].galon = galon
                         => galon_prediction[i].updated_at = result.current_time
              /\ others_earlier
                     => \A rows \in Listings(galon_prediction) :
                            rows[1].galon = galon

\* C15: currentPrediction and listAll are read-only: a step that serves
\* GET /predict/<galon> or GET /predictions leaves the Reading Store and
\* the Forecast Store as they are, whatever it answers.
C15_QueriesReadOnly ==
    [][request'[Handler].kind \in {"predict", "list"}
          => /\ galon_data' = galon_data
             /\ galon_prediction' = galon_prediction]_vars

\* a prediction was served, at a later time than the one its galon's row
\* was written at, between ingests for both galons
C15_Witness ==
    /\ request[Handler].kind = "predict"
    /\ response[Handler] = PredictionFound(prediction[Handler])
    /\ prediction[Handler] # None
    /\ Len(galon_prediction) = 2
    /\ \E i \in 1..Len(galon_prediction) :
          /\ galon_prediction[i].galon = request[Handler].galon
          /\ galon_prediction[i].predicted_empty_time
                 # prediction[Handler].predicted_empty_time

\* what the two stores hold for a galon
ReadingsOf(data, galon) == SelectSeq(data, LAMBDA r : r.galon = galon)

RowsOf(table, galon) == SelectSeq(table, LAMBDA r : r.galon = galon)

\* C16: containers are independent under any interleaving: a step of a
\* handler leaves the readings and the forecast row of every galon other
\* than the one of its request unchanged, and the records a handler
\* computes its prediction from are the readings of its own galon, none
\* left out and none of another galon.
C16_GalonsIndependent ==
    [][\A p \in Procs :
          /\ pc'[p] # pc[p]
                 => \A g \in Galons \ {request[p].galon} :
                        /\ ReadingsOf(galon_data', g) = ReadingsOf(galon_data, g)
                        /\ RowsOf(galon_prediction', g)
                               = RowsOf(galon_prediction, g)
          /\ (pc[p] = "fetch" /\ pc'[p] = "calc")
                 => /\ \A i \in 1..Len(records'[p]) :
                           records'[p][i].galon = request[p].galon
                    /\ Len(records'[p])
                           = Len(ReadingsOf(galon_data, request[p].galon))]_vars

\* two ingests for different galons ran at the same time; both upserted,
\* and each galon has its reading and its row
C16_Witness ==
    /\ \A p \in Procs : Upserted(p)
    /\ request["p1"].galon # request["p2"].galon
    /\ Len(galon_data) = 2
    /\ Len(galon_prediction) = 2
    /\ \A p \in Procs :
          /\ Len(records[p]) = 1
          /\ prediction[p].cumulative_consumption = records[p][1].value

\* the rate window of the galon at the present instant, as positions in
\* galon_data: the positive readings of the last 48 hours when there are
\* two or more of them, all the positive readings otherwise
Recent(galon) ==
    {i \in Positives(galon) : galon_data[i].timestamp >= now - RECENT_WINDOW}

Window(galon) ==
    IF Cardinality(Recent(galon)) >= 2 THEN Recent(galon) ELSE Positives(galon)

Earliest(positions) ==
    CHOOSE t \in {galon_data[i].timestamp : i \in positions} :
        \A i \in positions : t <= galon_data[i].timestamp

Latest(positions) ==
    CHOOSE t \in {galon_data[i].timestamp : i \in positions} :
        \A i \in positions : t >= galon_data[i].timestamp

\* elapsed minutes between first and last, at least 0.1 h
Elapsed(positions) ==
    IF Latest(positions) - Earliest(positions) > MIN_ELAPSED
    THEN Latest(positions) - Earliest(positions)
    ELSE MIN_ELAPSED

\* rate = max(MIN_RATE, S / E) for S in ml and E in minutes: the fraction
\* rate, which is in lowest terms, expands to (S * 60) / E
IsRateOf(rate, S, E) ==
    IF S * MinutesPerHour >= MIN_RATE * E
    THEN LET k == E \div rate[2]
         IN rate[2] * k = E /\ rate[1] * k = S * MinutesPerHour
    ELSE rate = <<MIN_RATE, 1>>

\* C17: the rate window is the set of positive readings with timestamp >=
\* now - 48 h when that set has at least two readings, and the full set of
\* positive readings when it has none or one; first and last are the
\* earliest and latest timestamps of the window: last_time is the latest,
\* and the rate is that of the window's sum over latest - earliest.
C17_RateWindow ==
    LET galon == request[Handler].galon
        result == prediction[Handler]
        window == Window(galon)
    IN (Computed /\ Positives(galon) # {})
           => /\ result # None
              /\ result.last_time = Latest(window) * SecondsPerMinute
              /\ IsRateOf(result.consumption_rate_per_hour,
                          SumAt(window), Elapsed(window))

\* three positive readings, the first exactly 48 hours old and in the
\* window
C17_Witness ==
    LET galon == request[Handler].galon
    IN /\ Computed
       /\ prediction[Handler] # None
       /\ Cardinality(Positives(galon)) = 3
       /\ Window(galon) = Positives(galon)
       /\ Earliest(Window(galon)) = now - RECENT_WINDOW
       /\ Latest(Window(galon)) = now

\* C18: consumption_rate_per_hour = max(MIN_RATE, S / E), S the sum of
\* the rate window's values and E = max(0.1 h, last - first): the divisor
\* is never below 0.1 h, and two readings of 1.0 l that are 0.05 h apart
\* give 20.0 l/h.
C18_RateFormula ==
    LET galon == request[Handler].galon
        result == prediction[Handler]
        window == Window(galon)
        S == SumAt(window)
        span == Latest(window) - Earliest(window)
        E == IF span >= MIN_ELAPSED THEN span ELSE MIN_ELAPSED
    IN (Computed /\ Positives(galon) # {})
           => /\ result # None
              /\ IsRateOf(result.consumption_rate_per_hour, S, E)
              /\ FracLeq(<<MIN_RATE, 1>>, result.consumption_rate_per_hour)
              /\ (/\ Cardinality(window) = 2
                  /\ \A i \in window : galon_data[i].value = 1000
                  /\ span = 3)
                     => result.consumption_rate_per_hour = <<20000, 1>>

\* two readings of 1.0 l, 0.05 h apart: 20.0 l/h
C18_Witness ==
    /\ Computed
    /\ Len(galon_data) = 2
    /\ galon_data[1].value = 1000
    /\ galon_data[2].value = 1000
    /\ galon_data[2].timestamp - galon_data[1].timestamp = 3
    /\ prediction[Handler] # None
    /\ prediction[Handler].consumption_rate_per_hour = <<20000, 1>>

\* the galon's history is 5.0 l at some T0 and 3.0 l one hour later
FiveThenThree ==
    /\ Len(galon_data) = 2
    /\ galon_data[1].value = 5000
    /\ galon_data[2].value = 3000
    /\ galon_data[2].timestamp - galon_data[1].timestamp = MinutesPerHour

\* C19: with remaining_volume > 0, hours_to_empty = remaining_volume /
\* consumption_rate_per_hour and predicted_empty_time = now + hours_to_empty
\* (to the second), now being the instant of the computation and not the
\* time of the last reading; 5.0 at T0 and 3.0 at T0 + 1 h give 8.0 l/h,
\* 11.0 l remaining and 1.375 h.
C19_EmptyTimeFromNow ==
    LET result == prediction[Handler]
        rate == result.consumption_rate_per_hour
        hours == result.hours_to_empty
        k == rate[1] \div hours[2]
    IN (Computed /\ result # None /\ result.remaining_volume > 0)
           => /\ hours[2] * k = rate[1]
              /\ hours[1] * k = result.remaining_volume * rate[2]
              /\ result.predicted_empty_time
                     = now * SecondsPerMinute + HoursToSeconds(hours)
              /\ FiveThenThree
                     => /\ rate = <<8000, 1>>
                        /\ result.remaining_volume = 11000
                        /\ hours = <<11, 8>>
                        /\ result.predicted_empty_time
                               = now * SecondsPerMinute + 4950

\* the prediction for 5.0 at T0 and 3.0 at T0 + 1 h, computed one hour
\* after the last reading
C19_Witness ==
    /\ FiveThenThree
    /\ request[Handler].kind = "predict"
    /\ prediction[Handler] # None
    /\ now = galon_data[2].timestamp + MinutesPerHour
    /\ prediction[Handler].hours_to_empty = <<11, 8>>
    /\ prediction[Handler].predicted_empty_time
           = prediction[Handler].last_time
                 + MinutesPerHour * SecondsPerMinute + 4950

====
